---- MODULE Spec2Model ----
(***************************************************************************)
(* Primary selection after a view change (plenum/server/primary_selector). *)
(* A PrimarySelector collects ViewChangeDone votes per protocol instance,  *)
(* decides when a strong quorum of identical votes names the round-robin   *)
(* primary, and casts this node's own vote when selection starts.          *)
(*                                                                         *)
(* The state of every modelled selector is kept per node name, so that     *)
(* one behaviour can hold two correct nodes side by side.                  *)
(***************************************************************************)
EXTENDS Integers, Sequences, FiniteSets, TLC

VARIABLES
    totalNodes,              \* node.totalNodes: the roster size
    viewNo,                  \* viewNo[n]: self.viewNo of selector n
    previous_master_primary, \* previous_master_primary[n]: node name or None
    view_change_done,        \* _view_change_done[n]: inst id -> replica name -> data
    primaryName,             \* primaryName[n][i]: replicas[i].primaryName of node n
    last,                    \* last[n]: what the latest call on n did and returned
    recording,               \* whether the calls are recorded in last
    view_began               \* view_began[n]: the view n left for its current
                             \* one, and previous_master_primary as it then was

vars == <<totalNodes, viewNo, previous_master_primary, view_change_done,
          primaryName, last, recording, view_began>>

(***************************************************************************)
(* Bounds of the model.                                                    *)
(***************************************************************************)
\* view numbers run over 0..MaxView
MaxView == 1
\* at most MaxVotes votes of peers are recorded by a selector in one view
MaxVotes == 3
\* the roster specification tries the roster sizes 1..MaxNodes
MaxNodes == 3

(***************************************************************************)
(* Names.                                                                  *)
(***************************************************************************)
\* Python's None, for a node name
None == "None"
\* Python's None, for a replica name
NoReplica == <<>>

\* the rank table: rank r (from 0) is held by RankTable[r + 1]
RankTable == <<"A", "B", "C", "D", "E", "F">>

get_name_by_rank(rank) == RankTable[rank + 1]

\* the nodes of a roster of the given size
Roster(size) == {RankTable[r] : r \in 1..size}

\* Replica.generateName: "<node>:<inst>"
generateName(nodeName, instId) == <<nodeName, instId>>

\* Replica.getNodeName: the part before the colon
getNodeName(replicaName) == replicaName[1]

\* node.f, the number of faulty nodes a roster tolerates
f == (totalNodes - 1) \div 3

get_strong_quorum(ff) == 2 * ff + 1

\* self.replicas: one replica per instance, the master first
replicas == <<0, 1>>

\* the instance ids that index self.replicas
Instances == {replicas[k] : k \in DOMAIN replicas}

_is_master_instance(instance_id) == instance_id = 0

(***************************************************************************)
(* Ledger summaries.  A ledger_info is the list of the summaries of the    *)
(* node's ledgers, each summary a (ledger id, size) list.                  *)
(***************************************************************************)
\* self.ledger_info: the summaries of this node's own ledgers
ledger_info == << <<0, 1>> >>

\* a ledger_info that differs from the local one
OtherLedgerInfo == << <<0, 2>> >>

\* tuple(tuple(i) for i in info): rebuilt element by element
TupleOfTuples(info) ==
    [k \in DOMAIN info |-> [j \in DOMAIN info[k] |-> info[k][j]]]

(***************************************************************************)
(* The vote ledger of one selector: vcd is a _view_change_done dict.       *)
(***************************************************************************)
EmptyDict == [x \in {} |-> <<>>]

\* dict with d[key] = value set
DictSet(d, key, value) ==
    [x \in DOMAIN d \cup {key} |-> IF x = key THEN value ELSE d[x]]

\* self._view_change_done.get(instance_id, {})
DictGet(vcd, instance_id) ==
    IF instance_id \in DOMAIN vcd THEN vcd[instance_id] ELSE EmptyDict

\* mutant: the elif is dropped, a later vote of the same voter overwrites
Mut_track_view_change_done(vcd, instance_id, sender_replica_name, new_primary_replica_name, info) ==
    [rv |-> TRUE,
     vcd |-> DictSet(vcd, instance_id,
                 DictSet(DictGet(vcd, instance_id), sender_replica_name,
                         <<new_primary_replica_name, info>>))]

\* _track_view_change_done: what it returns (rv) and the dict it leaves
_track_view_change_done(vcd, instance_id, sender_replica_name, new_primary_replica_name, info) ==
    IF instance_id \in DOMAIN vcd
       /\ sender_replica_name \in DOMAIN vcd[instance_id]
    THEN [rv |-> FALSE, vcd |-> vcd]
    ELSE [rv |-> TRUE,
          vcd |-> DictSet(vcd, instance_id,
                      DictSet(IF instance_id \notin DOMAIN vcd
                              THEN EmptyDict ELSE vcd[instance_id],
                              sender_replica_name,
                              <<new_primary_replica_name, info>>))]

\* mutant: the view number is left out of the rank
Mut_who_is_the_next_primary(view, instance_id) ==
    generateName(get_name_by_rank(instance_id % totalNodes), instance_id)

\* RoundRobin: the replica that is to be primary of instance_id in view
_who_is_the_next_primary(view, instance_id) ==
    generateName(get_name_by_rank((view + instance_id) % totalNodes),
                 instance_id)

\* mutant: one declaration more than the quorum is asked for
Mut_hasViewChangeQuorum(vcd, instance_id) ==
    LET declarations == DictGet(vcd, instance_id)
        num_of_ready_nodes == Cardinality(DOMAIN declarations)
        quorum == get_strong_quorum(f)
        diff == quorum - num_of_ready_nodes
    IN  ~ (diff >= 0)

_hasViewChangeQuorum(vcd, instance_id) ==
    LET declarations == DictGet(vcd, instance_id)
        num_of_ready_nodes == Cardinality(DOMAIN declarations)
        quorum == get_strong_quorum(f)
        diff == quorum - num_of_ready_nodes
    IN  ~ (diff > 0)

\* mutant: the vote of the next primary is not asked for
Mut_has_view_change_from_primary(vcd, view, instance_id) ==
    DOMAIN DictGet(vcd, instance_id) # {}

has_view_change_from_primary(vcd, view, instance_id) ==
    LET declarations == DictGet(vcd, instance_id)
        next_primary_name == _who_is_the_next_primary(view, instance_id)
    IN  next_primary_name \in DOMAIN declarations

\* the votes of an instance as has_sufficient_same_... rewrites them,
\* kept per voter so that equal votes of two voters count twice
NormalisedVotes(vcd, instance_id) ==
    [v \in DOMAIN vcd[instance_id] |->
        <<vcd[instance_id][v][1], TupleOfTuples(vcd[instance_id][v][2])>>]

\* votes.count(pair)
VoteCount(votes, pair) == Cardinality({v \in DOMAIN votes : votes[v] = pair})

\* mostCommonElement: the pairs of the highest count; which of several
\* equally frequent pairs is returned is not fixed
mostCommonElement(votes) ==
    {votes[v] : v \in {w \in DOMAIN votes :
        \A u \in DOMAIN votes :
            VoteCount(votes, votes[w]) >= VoteCount(votes, votes[u])}}

\* has_sufficient_same_view_change_done_messages, for the pair that
\* mostCommonElement returned: TRUE when it is returned, FALSE for None
has_sufficient_same_view_change_done_messages(vcd, instance_id, pair) ==
    VoteCount(NormalisedVotes(vcd, instance_id), pair)
        >= get_strong_quorum(f)

\* mutant: the majority's primary is taken without comparing it with
\* the round-robin primary
Mut_verify_primary_selection(view, instance_id, new_primary) ==
    new_primary # NoReplica

_verify_primary_selection(view, instance_id, new_primary) ==
    LET expected_primary == _who_is_the_next_primary(view, instance_id)
    IN  ~ (new_primary # expected_primary)

(***************************************************************************)
(* ViewChangeDone messages and the record of the latest call.              *)
(***************************************************************************)
ViewChangeDone(name, instId, view, info) ==
    [name |-> name, instId |-> instId, viewNo |-> view, ledgerInfo |-> info]

\* what a call did: the handler, what it returned ("True", "False",
\* "None", or the exception it raised), the reason it logged, and the
\* messages it sent
Called(op, rv, reason, sent) ==
    [op |-> op, rv |-> rv, reason |-> reason, sent |-> sent]

\* the call is noted as the latest of node n, when calls are recorded
Record(n, call) ==
    /\ last' = IF recording THEN [last EXCEPT ![n] = call] ELSE last
    /\ UNCHANGED recording

\* mutant: only a vote of a later view is turned down
Mut_IsOtherView(view, view_no) == view < view_no

\* line 75: the vote is not of the current view
IsOtherView(view, view_no) == view # view_no

\* mutant: the replica name, not its node name, is compared
Mut_IsPreviousMasterPrimary(pmp, instance_id, new_primary_replica_name) ==
    _is_master_instance(instance_id)
        /\ new_primary_replica_name = <<pmp>>

\* lines 89-90: the vote names the previous master primary for the master
IsPreviousMasterPrimary(pmp, instance_id, new_primary_replica_name) ==
    _is_master_instance(instance_id)
        /\ getNodeName(new_primary_replica_name) = pmp

\* replica.hasPrimary
hasPrimary(prim, instance_id) == prim[instance_id] # NoReplica

\* replica.primaryChanged(name): the replica adopts the primary
primaryChanged(prim, instance_id, name) ==
    [prim EXCEPT ![instance_id] = name]

\* the caller of a vote that decided the instance finalizes its primary
FinalizePrimary(prim, instance_id, name) ==
    primaryChanged(prim, instance_id, name)

(***************************************************************************)
(* process_vote: _processViewChangeDoneMessage(msg, sender) on node n.     *)
(* The handler is a function of the selector's state and its arguments,    *)
(* up to the pair mostCommonElement picks: it is modelled as the set of    *)
(* the outcomes it can have.                                               *)
(***************************************************************************)
\* an outcome of the handler: what it returns, the reason it logs, and
\* the selector's vote ledger, primaries and previous master primary
Outcome(rv, reason, vcd, prim, pmp) ==
    [rv |-> rv, reason |-> reason, vcd |-> vcd, prim |-> prim, pmp |-> pmp]

\* self.discard(msg, reason, ...); return False
Discard(n, reason) ==
    {Outcome("False", reason, view_change_done[n], primaryName[n],
             previous_master_primary[n])}

\* lines 122-126, for the pair rv that mostCommonElement returned
VerifyMostCommon(n, instance_id, tracked, rv) ==
    IF ~ has_sufficient_same_view_change_done_messages(
             tracked, instance_id, rv)
    THEN Outcome("False", "no acceptable primary", tracked, primaryName[n],
                 previous_master_primary[n])
    ELSE IF ~ _verify_primary_selection(viewNo[n], instance_id, rv[1])
    THEN Outcome("False", "majority declared another", tracked,
                 primaryName[n], previous_master_primary[n])
    ELSE Outcome("True", "", tracked,
                 FinalizePrimary(primaryName[n], instance_id, rv[1]),
                 previous_master_primary[n])

\* lines 108-126, run on the dict the vote was just tracked in
DecideAfterTracking(n, instance_id, tracked) ==
    IF instance_id \notin Instances
    THEN \* self.replicas[instance_id] raises
         {Outcome("IndexError", "", tracked, primaryName[n],
                  previous_master_primary[n])}
    ELSE IF hasPrimary(primaryName[n], instance_id)
    THEN {Outcome("False", "already decided", tracked, primaryName[n],
                  previous_master_primary[n])}
    ELSE IF ~ (_hasViewChangeQuorum(tracked, instance_id)
               /\ has_view_change_from_primary(tracked, viewNo[n],
                                               instance_id))
    THEN {Outcome("False", "no quorum", tracked, primaryName[n],
                  previous_master_primary[n])}
    ELSE {VerifyMostCommon(n, instance_id, tracked, rv) :
            rv \in mostCommonElement(NormalisedVotes(tracked, instance_id))}

_processViewChangeDoneMessage(n, msg, sender) ==
    LET view_no == msg.viewNo
        new_primary_replica_name == msg.name
        instance_id == msg.instId
        info == msg.ledgerInfo
        sender_replica_name == generateName(sender, instance_id)
        tracked == _track_view_change_done(view_change_done[n],
                       instance_id, sender_replica_name,
                       new_primary_replica_name, info)
    IN  IF IsOtherView(viewNo[n], view_no)
        THEN Discard(n, "other view")
        ELSE IF IsPreviousMasterPrimary(previous_master_primary[n],
                     instance_id, new_primary_replica_name)
        THEN Discard(n, "previous master primary")
        ELSE IF ~ tracked.rv
        THEN Discard(n, "already voted")
        ELSE DecideAfterTracking(n, instance_id, tracked.vcd)

\* node n handles the vote msg of sender
process_vote(n, msg, sender) ==
    \E out \in _processViewChangeDoneMessage(n, msg, sender) :
        /\ view_change_done' = [view_change_done EXCEPT ![n] = out.vcd]
        /\ primaryName' = [primaryName EXCEPT ![n] = out.prim]
        /\ previous_master_primary' =
               [previous_master_primary EXCEPT ![n] = out.pmp]
        /\ Record(n, Called("process_vote", out.rv, out.reason, <<>>))
        /\ UNCHANGED <<totalNodes, viewNo, view_began>>

(***************************************************************************)
(* start_selection: decidePrimaries() / _startSelection() on node n.       *)
(***************************************************************************)
\* mutant: the vote is sent and not recorded
Mut_send_view_change_done_message(st, n, instance_id, new_primary_name, view_no) ==
    [st EXCEPT !.sent = Append(@, ViewChangeDone(new_primary_name,
                                   instance_id, view_no, ledger_info))]

\* _send_view_change_done_message on the loop's state st
_send_view_change_done_message(st, n, instance_id, new_primary_name, view_no) ==
    LET message == ViewChangeDone(new_primary_name, instance_id, view_no,
                                  ledger_info)
        replica_name == generateName(n, instance_id)
    IN  [st EXCEPT
            !.sent = Append(@, message),
            !.vcd = _track_view_change_done(@, instance_id, replica_name,
                        new_primary_name, ledger_info).vcd]

\* mutant: a replica that has a primary is not skipped
Mut_AlreadyHasPrimary(prim, instance_id) == FALSE

\* line 209: replica.primaryName is not None
AlreadyHasPrimary(prim, instance_id) == prim[instance_id] # NoReplica

\* one turn of the loop of _startSelection, for the k-th replica
SelectFor(st, n, k) ==
    LET instance_id == k - 1
    IN  IF AlreadyHasPrimary(st.prim, instance_id)
        THEN st
        ELSE LET new_primary_name ==
                     _who_is_the_next_primary(viewNo[n], instance_id)
                 told == _send_view_change_done_message(
                             st, n, instance_id, new_primary_name, viewNo[n])
             IN  [told EXCEPT
                     !.prim = primaryChanged(@, instance_id,
                                             new_primary_name),
                     !.pmp = IF instance_id = 0 THEN None ELSE @]

RECURSIVE SelectionLoop(_, _, _)
\* the loop of _startSelection from the k-th replica on
SelectionLoop(st, n, k) ==
    IF k > Len(replicas) THEN st
    ELSE SelectionLoop(SelectFor(st, n, k), n, k + 1)

\* what _startSelection leaves: the vote ledger, the primaries, the
\* previous master primary and the messages sent
SelectionResult(n) ==
    SelectionLoop([vcd |-> view_change_done[n], prim |-> primaryName[n],
                   pmp |-> previous_master_primary[n], sent |-> <<>>], n, 1)

_startSelection(n) ==
    LET st == SelectionResult(n)
    IN  /\ view_change_done' = [view_change_done EXCEPT ![n] = st.vcd]
        /\ primaryName' = [primaryName EXCEPT ![n] = st.prim]
        /\ previous_master_primary' =
               [previous_master_primary EXCEPT ![n] = st.pmp]
        /\ Record(n, Called("start_selection", "None", "", st.sent))
        /\ UNCHANGED <<totalNodes, viewNo, view_began>>

(***************************************************************************)
(* view_change_started(viewNo) on node n.                                  *)
(***************************************************************************)
\* PrimaryDecider.view_change_started accepts a view newer than the current
AcceptsView(view, new_view) == new_view > view

\* the node that held the master primary role, or None
master_primary_name(prim) ==
    IF prim[0] = NoReplica THEN None ELSE getNodeName(prim[0])

\* mutant: only the master's votes are dropped
Mut_ResetVotes(vcd) ==
    [i \in DOMAIN vcd |-> IF i = 0 THEN EmptyDict ELSE vcd[i]]

\* lines 274-275: every instance's votes are dropped
ResetVotes(vcd) == [i \in DOMAIN vcd |-> EmptyDict]

view_change_started(n, new_view) ==
    IF AcceptsView(viewNo[n], new_view)
    THEN /\ viewNo' = [viewNo EXCEPT ![n] = new_view]
         /\ previous_master_primary' = [previous_master_primary EXCEPT
                ![n] = master_primary_name(primaryName[n])]
         /\ primaryName' = [primaryName EXCEPT
                ![n] = [i \in Instances |-> NoReplica]]
         /\ view_change_done' = [view_change_done EXCEPT
                ![n] = ResetVotes(@)]
         /\ Record(n, Called("view_change_started", "True", "", <<>>))
         /\ view_began' = [view_began EXCEPT ![n] =
                [view |-> viewNo[n],
                 pmp |-> master_primary_name(primaryName[n])]]
         /\ UNCHANGED totalNodes
    ELSE /\ Record(n, Called("view_change_started", "False", "", <<>>))
         /\ UNCHANGED <<totalNodes, viewNo, previous_master_primary,
                        primaryName, view_change_done, view_began>>

(***************************************************************************)
(* catch_up_messages: get_msgs_for_lagged_nodes() on node n.               *)
(***************************************************************************)
\* mutant: the messages are tagged with view 0, not with the current view
Mut_get_msgs_for_lagged_nodes(n) ==
    LET vcd == view_change_done[n]
        own == {i \in DOMAIN vcd : generateName(n, i) \in DOMAIN vcd[i]}
    IN  IF own = {} THEN <<>>
        ELSE [k \in 1..Cardinality(own) |->
                 LET i == CHOOSE j \in own :
                              Cardinality({h \in own : h < j}) = k - 1
                 IN  ViewChangeDone(vcd[i][generateName(n, i)][1], i, 0,
                                    vcd[i][generateName(n, i)][2])]

RECURSIVE LaggedLoop(_, _, _)
\* the loop of get_msgs_for_lagged_nodes over the instance ids still to
\* visit; the model visits them in ascending order
LaggedLoop(n, keys, messages) ==
    IF keys = {} THEN messages
    ELSE LET instance_id == CHOOSE k \in keys : \A j \in keys : k <= j
             replica_messages == view_change_done[n][instance_id]
             self_name == generateName(n, instance_id)
         IN  LaggedLoop(n, keys \ {instance_id},
                 IF self_name \in DOMAIN replica_messages
                 THEN Append(messages,
                          ViewChangeDone(replica_messages[self_name][1],
                                         instance_id, viewNo[n],
                                         replica_messages[self_name][2]))
                 ELSE messages)

\* the list get_msgs_for_lagged_nodes returns
get_msgs_for_lagged_nodes(n) ==
    LaggedLoop(n, DOMAIN view_change_done[n], <<>>)

\* node n is asked for the messages for a lagged node
catch_up_messages(n) ==
    /\ Record(n, Called("catch_up_messages", "List", "",
                        get_msgs_for_lagged_nodes(n)))
    /\ UNCHANGED <<totalNodes, viewNo, previous_master_primary,
                   view_change_done, primaryName, view_began>>

(***************************************************************************)
(* The selectors and their inputs.                                         *)
(***************************************************************************)
\* the node whose selector the main specification runs
Self == "A"

\* the correct nodes the agreement specification runs side by side
Selectors == {"A", "B"}

\* the state of a selector after construction
InitSelectors ==
    /\ viewNo = [n \in Selectors |-> 0]
    /\ previous_master_primary = [n \in Selectors |-> None]
    /\ view_change_done = [n \in Selectors |-> EmptyDict]
    /\ primaryName = [n \in Selectors |-> [i \in Instances |-> NoReplica]]
    /\ last = [n \in Selectors |-> Called("init", "None", "", <<>>)]
    /\ view_began = [n \in Selectors |-> [view |-> 0, pmp |-> None]]

\* the peers whose messages reach node n
Peers(n) == Roster(totalNodes) \ {n}

Views == 0..MaxView

\* instance ids a vote may carry: those of the replicas and one past them
VoteInstances == 0..Len(replicas)

\* the votes a peer may send
Votes ==
    {ViewChangeDone(generateName(c, i), i, v, ledger_info) :
        c \in {"A", "B"}, i \in Instances, v \in Views}
    \cup {ViewChangeDone(generateName(c, 0), 0, v, OtherLedgerInfo) :
        c \in {"A", "B"}, v \in Views}

\* the number of votes of peers that node n holds
RecordedPeerVotes(n) ==
    LET vcd == view_change_done[n]
    IN  Cardinality(UNION {{<<i, v>> : v \in DOMAIN vcd[i] \ {generateName(n, i)}} : i \in DOMAIN vcd})

\* the selector would record the vote: it is of the current view, passes
\* the anti-flap rule and is the first of its voter for the instance
WouldRecord(n, msg, sender) ==
    /\ ~ IsOtherView(viewNo[n], msg.viewNo)
    /\ ~ IsPreviousMasterPrimary(previous_master_primary[n], msg.instId,
                                 msg.name)
    /\ _track_view_change_done(view_change_done[n], msg.instId,
           generateName(sender, msg.instId), msg.name, msg.ledgerInfo).rv

\* a vote is delivered while the selectors hold fewer than MaxVotes votes
\* of peers, or when it is one the selector does not record
Deliverable(n, msg, sender) ==
    WouldRecord(n, msg, sender)
        => RecordedPeerVotes("A") + RecordedPeerVotes("B") < MaxVotes

Init ==
    /\ totalNodes = 4
    /\ recording = TRUE
    /\ InitSelectors

ProcessVote == \E msg \in Votes, sender \in Peers(Self) :
    /\ Deliverable(Self, msg, sender)
    /\ process_vote(Self, msg, sender)

StartSelection == _startSelection(Self)

ViewChangeStarted == \E v \in Views : view_change_started(Self, v)

Next == ProcessVote \/ StartSelection \/ ViewChangeStarted

Spec == Init /\ [][Next]_vars

(***************************************************************************)
(* The selector of one node in rosters of every size up to MaxNodes.       *)
(***************************************************************************)
InitRoster ==
    /\ totalNodes \in 1..MaxNodes
    /\ recording = TRUE
    /\ InitSelectors

SpecRoster == InitRoster /\ [][Next]_vars

(***************************************************************************)
(* Two correct nodes side by side, each running its own selector on the    *)
(* same rank table; the votes that reach them are whatever their peers,    *)
(* faulty or not, may send, in any order.                                  *)
(***************************************************************************)
\* the votes a peer may send to the two nodes: votes for the master
VotesAgree ==
    {ViewChangeDone(generateName(c, 0), 0, v, ledger_info) :
        c \in {"A", "B"}, v \in Views}

ProcessVoteAgree ==
    \E n \in Selectors, msg \in VotesAgree :
        \E sender \in Peers(n) :
            /\ Deliverable(n, msg, sender)
            /\ process_vote(n, msg, sender)

StartSelectionAgree == \E n \in Selectors : _startSelection(n)

ViewChangeStartedAgree ==
    \E n \in Selectors, v \in Views : view_change_started(n, v)

NextAgree ==
    ProcessVoteAgree \/ StartSelectionAgree \/ ViewChangeStartedAgree

InitAgree ==
    /\ totalNodes = 4
    /\ recording = FALSE
    /\ InitSelectors

SpecAgree == InitAgree /\ [][NextAgree]_vars

(***************************************************************************)
(* The selector of one node under votes that carry any instance id, also   *)
(* one for which the node runs no replica.                                 *)
(***************************************************************************)
\* the votes a peer may send, with the instance id one past the replicas
VotesAnyInstance ==
    Votes \cup
    {ViewChangeDone(generateName(c, i), i, v, ledger_info) :
        c \in {"A", "B"}, i \in VoteInstances \ Instances, v \in Views}

ProcessVoteAnyInstance ==
    \E msg \in VotesAnyInstance, sender \in Peers(Self) :
        /\ Deliverable(Self, msg, sender)
        /\ process_vote(Self, msg, sender)

NextAnyInstance ==
    ProcessVoteAnyInstance \/ StartSelection \/ ViewChangeStarted

SpecAnyInstance == Init /\ [][NextAnyInstance]_vars

(***************************************************************************)
(* The selector of one node that is also asked for catch-up messages.      *)
(***************************************************************************)
CatchUpMessages == catch_up_messages(Self)

NextCatchUp ==
    ProcessVote \/ StartSelection \/ ViewChangeStarted \/ CatchUpMessages

SpecCatchUp == Init /\ [][NextCatchUp]_vars

(***************************************************************************)
(* The selector of one node of a roster of five: f is 1 and a strong       *)
(* quorum is 3 of the 4 peers, so a quorum can form beside a dissenting    *)
(* vote.  One vote more than MaxVotes is let in, and calls are not         *)
(* recorded.                                                               *)
(***************************************************************************)
\* a vote is delivered while the selector holds at most MaxVotes votes of
\* peers, or when it is one the selector does not record
DeliverableFive(n, msg, sender) ==
    WouldRecord(n, msg, sender) => RecordedPeerVotes(n) <= MaxVotes

\* the votes a peer may send: for either claimed primary, with the ledger
\* summaries this node has too
VotesFive ==
    {ViewChangeDone(generateName(c, i), i, v, ledger_info) :
        c \in {"A", "B"}, i \in Instances, v \in Views}

ProcessVoteFive == \E msg \in VotesFive, sender \in Peers(Self) :
    /\ DeliverableFive(Self, msg, sender)
    /\ process_vote(Self, msg, sender)

NextFive == ProcessVoteFive \/ StartSelection \/ ViewChangeStarted

InitFive ==
    /\ totalNodes = 5
    /\ recording = FALSE
    /\ InitSelectors

SpecFive == InitFive /\ [][NextFive]_vars

(***************************************************************************)
(* The round-robin schedule in rosters of every size up to MaxNodes: the   *)
(* selector of one node, whose calls are not recorded.                     *)
(***************************************************************************)
InitSchedule ==
    /\ totalNodes \in 1..MaxNodes
    /\ recording = FALSE
    /\ InitSelectors

SpecSchedule == InitSchedule /\ [][Next]_vars

(***************************************************************************)
(* Properties.                                                             *)
(***************************************************************************)
\* the (claimed primary, ledger_info) pairs recorded for an instance
RecordedPairs(vcd, instance_id) ==
    {DictGet(vcd, instance_id)[v] : v \in DOMAIN DictGet(vcd, instance_id)}

\* the number of voters of an instance whose recorded vote is pair
PairCount(vcd, instance_id, pair) ==
    Cardinality({v \in DOMAIN DictGet(vcd, instance_id) :
                    DictGet(vcd, instance_id)[v] = pair})

\* some pair naming new_primary is recorded by a strong quorum of voters
QuorumOfIdenticalVotesFor(vcd, instance_id, new_primary) ==
    \E pair \in RecordedPairs(vcd, instance_id) :
        /\ pair[1] = new_primary
        /\ PairCount(vcd, instance_id, pair) >= 2 * f + 1

\* some pair is recorded by a strong quorum of voters
QuorumOfIdenticalVotes(vcd, instance_id) ==
    \E pair \in RecordedPairs(vcd, instance_id) :
        PairCount(vcd, instance_id, pair) >= 2 * f + 1

\* C1: no false-positive decision.  Whenever process_vote returns true
\* for a vote on instance i, the votes then recorded for i hold a strong
\* quorum (2f+1) of one identical (claimed primary, ledger_info) pair whose
\* claimed primary is the expected primary of (view, i), and a vote of the
\* expected primary's own replica is recorded for i; when the quorum of
\* identical votes or the expected primary's vote is missing, it returns
\* false.
C1_NoFalsePositiveDecision ==
    \A msg \in Votes, sender \in Peers(Self) :
        \A out \in _processViewChangeDoneMessage(Self, msg, sender) :
            LET i == msg.instId
                expected == _who_is_the_next_primary(viewNo[Self], i)
            IN  /\ out.rv = "True" =>
                    /\ QuorumOfIdenticalVotesFor(out.vcd, i, expected)
                    /\ expected \in DOMAIN DictGet(out.vcd, i)
                /\ \/ out.rv = "False"
                   \/ /\ QuorumOfIdenticalVotes(out.vcd, i)
                      /\ expected \in DOMAIN DictGet(out.vcd, i)

\* C1 witness: a vote has just decided an instance
C1_Witness ==
    /\ last[Self].op = "process_vote"
    /\ last[Self].rv = "True"
    /\ \E i \in Instances :
          /\ primaryName[Self][i] = _who_is_the_next_primary(viewNo[Self], i)
          /\ QuorumOfIdenticalVotesFor(view_change_done[Self], i,
                                       primaryName[Self][i])

\* C2: agreement across nodes.  Two correct nodes with the same rank table
\* that are in the same view hold the same primary for every instance for
\* which both hold one (adopted by start_selection or confirmed by a vote
\* that returned true), whatever votes their peers sent, in whatever order.
C2_Agreement ==
    \A n1 \in Selectors, n2 \in Selectors :
        viewNo[n1] = viewNo[n2] =>
            \A i \in Instances :
                (primaryName[n1][i] # NoReplica
                 /\ primaryName[n2][i] # NoReplica)
                    => primaryName[n1][i] = primaryName[n2][i]

\* C2 witness: in the same view node A adopted the master primary by
\* start_selection and node B had it confirmed by its peers' votes
C2_Witness ==
    /\ viewNo["A"] = viewNo["B"]
    /\ primaryName["A"][0] # NoReplica
    /\ primaryName["B"][0] # NoReplica
    /\ generateName("A", 0) \in DOMAIN DictGet(view_change_done["A"], 0)
    /\ generateName("B", 0) \notin DOMAIN DictGet(view_change_done["B"], 0)
    /\ QuorumOfIdenticalVotesFor(view_change_done["B"], 0,
                                 primaryName["B"][0])

\* every entry of the vote ledger before is the same entry of after
EntriesKept(before, after) ==
    \A i \in DOMAIN before :
        \A voter \in DOMAIN before[i] :
            /\ i \in DOMAIN after
            /\ voter \in DOMAIN after[i]
            /\ after[i][voter] = before[i][voter]

\* a second vote of a voter recorded for the instance in this view is
\* rejected and the ledger is left as it was
DuplicateVoteRejected ==
    \A msg \in Votes, sender \in Peers(Self) :
        (/\ msg.viewNo = viewNo[Self]
         /\ generateName(sender, msg.instId)
                \in DOMAIN DictGet(view_change_done[Self], msg.instId))
        => \A out \in _processViewChangeDoneMessage(Self, msg, sender) :
              /\ out.rv = "False"
              /\ out.vcd = view_change_done[Self]

\* start_selection keeps every entry it finds, that of its own replica too
SelectionKeepsEntries ==
    EntriesKept(view_change_done[Self], SelectionResult(Self).vcd)

\* C3: one vote per voter.  The vote ledger maps each (instance, voter) to
\* one entry, and as long as the view does not change an entry stays as
\* it was first written; a second vote of the same sender for the same
\* instance in the same view returns false and leaves the first vote
\* stored, whether its content is the same or not; start_selection, too,
\* overwrites no entry.
C3_OneVotePerVoter ==
    /\ [](DuplicateVoteRejected /\ SelectionKeepsEntries)
    /\ [][viewNo' = viewNo =>
            EntriesKept(view_change_done[Self], view_change_done'[Self])]_vars

\* C3 witness: a peer that had voted voted again, with another content,
\* and was turned down
C3_Witness ==
    /\ last[Self].op = "process_vote"
    /\ last[Self].reason = "already voted"
    /\ last[Self].rv = "False"
    /\ \E msg \in Votes, sender \in Peers(Self) :
          /\ msg.viewNo = viewNo[Self]
          /\ generateName(sender, msg.instId)
                 \in DOMAIN DictGet(view_change_done[Self], msg.instId)
          /\ DictGet(view_change_done[Self], msg.instId)
                 [generateName(sender, msg.instId)]
                 # <<msg.name, msg.ledgerInfo>>

\* the selector's state is left as it was by the outcome
LeftAsBefore(n, out) ==
    /\ out.vcd = view_change_done[n]
    /\ out.pmp = previous_master_primary[n]
    /\ out.prim = primaryName[n]

\* C4: stale-view discard.  For every vote whose view_no is not the
\* node's current view number, lower or higher, process_vote returns false
\* and leaves the vote ledger, the previous master primary and every
\* instance's primary exactly as they were.
C4_StaleViewDiscard ==
    \A msg \in Votes, sender \in Peers(Self) :
        msg.viewNo # viewNo[Self] =>
            \A out \in _processViewChangeDoneMessage(Self, msg, sender) :
                out.rv = "False" /\ LeftAsBefore(Self, out)

\* C4 witness: in a view after the first, with votes held, a vote of
\* another view was handled and turned down
C4_Witness ==
    /\ last[Self].op = "process_vote"
    /\ last[Self].reason = "other view"
    /\ last[Self].rv = "False"
    /\ viewNo[Self] > 0
    /\ RecordedPeerVotes(Self) > 0

\* C5: anti-flap rejection.  While the previous master primary is node A,
\* every vote for the master instance whose claimed primary is a replica
\* of A returns false and is not recorded, also when it would be the vote
\* that completes a quorum of voters; a vote naming A for a backup
\* instance is not turned down by this rule: a first vote of its sender in
\* the current view, it is recorded.
C5_AntiFlap ==
    \A msg \in Votes, sender \in Peers(Self) :
        getNodeName(msg.name) = previous_master_primary[Self] =>
            \A out \in _processViewChangeDoneMessage(Self, msg, sender) :
                /\ msg.instId = 0 =>
                      out.rv = "False" /\ LeftAsBefore(Self, out)
                /\ msg.instId # 0 =>
                      /\ out.reason # "previous master primary"
                      /\ (/\ msg.viewNo = viewNo[Self]
                          /\ generateName(sender, msg.instId) \notin
                               DOMAIN DictGet(view_change_done[Self],
                                              msg.instId))
                         => /\ generateName(sender, msg.instId) \in
                                 DOMAIN DictGet(out.vcd, msg.instId)
                            /\ out.vcd[msg.instId]
                                   [generateName(sender, msg.instId)]
                                 = <<msg.name, msg.ledgerInfo>>

\* C5 witness: with a previous master primary set and all but one of a
\* quorum of voters recorded for the master, a vote naming the previous
\* master primary was turned down, and one naming it for the backup
\* instance is held
C5_Witness ==
    /\ previous_master_primary[Self] # None
    /\ last[Self].op = "process_vote"
    /\ last[Self].reason = "previous master primary"
    /\ Cardinality(DOMAIN DictGet(view_change_done[Self], 0)) = 2 * f
    /\ \E v \in DOMAIN DictGet(view_change_done[Self], 1) :
          getNodeName(view_change_done[Self][1][v][1])
              = previous_master_primary[Self]

\* the master primary the selector holds was not the previous master
\* primary when the current view began
MasterPrimaryIsNew ==
    primaryName[Self][0] # NoReplica
        => getNodeName(primaryName[Self][0]) # view_began[Self].pmp

\* C6: a just-demoted master primary is never re-selected.  In every view
\* entered from the view before it, whatever the roster size, the master
\* primary adopted (by start_selection or by a vote that returned true) is
\* not the node that was the previous master primary when the view began.
C6_NeverReselected ==
    viewNo[Self] = view_began[Self].view + 1 => MasterPrimaryIsNew

\* the same in rosters of two nodes or more, where the round robin of
\* _who_is_the_next_primary moves on between consecutive views
NeverReselectedInRosterOfTwo ==
    (totalNodes >= 2 /\ viewNo[Self] = view_began[Self].view + 1)
        => MasterPrimaryIsNew

\* the messages of a sequence that are for the instance
SentFor(sent, instance_id) ==
    {k \in DOMAIN sent : sent[k].instId = instance_id}

\* start_selection passes over an instance that has a primary
SelectionSkipsDecided ==
    \A i \in Instances :
        primaryName[Self][i] # NoReplica =>
            /\ SelectionResult(Self).prim[i] = primaryName[Self][i]
            /\ SentFor(SelectionResult(Self).sent, i) = {}
            /\ DictGet(SelectionResult(Self).vcd, i)
                   = DictGet(view_change_done[Self], i)

\* a vote for an instance that has a primary returns false
VoteAfterDecisionRejected ==
    \A msg \in Votes, sender \in Peers(Self) :
        primaryName[Self][msg.instId] # NoReplica =>
            \A out \in _processViewChangeDoneMessage(Self, msg, sender) :
                out.rv = "False" /\ out.prim = primaryName[Self]

\* C7: within one view the Decided state is one-way.  Once an instance
\* has a primary, start_selection passes over it, sending and recording
\* nothing for it, every later vote for it returns false, and its primary
\* stays the same as long as the view does not change.
C7_DecidedIsOneWay ==
    /\ [](SelectionSkipsDecided /\ VoteAfterDecisionRejected)
    /\ [][\A i \in Instances :
            (viewNo'[Self] = viewNo[Self]
             /\ primaryName[Self][i] # NoReplica)
                => primaryName'[Self][i] = primaryName[Self][i]]_vars

\* C7 witness: start_selection gave an instance its primary, and a vote
\* of a peer for that instance was then recorded and returned false
C7_Witness ==
    /\ last[Self].op = "process_vote"
    /\ last[Self].reason = "already decided"
    /\ last[Self].rv = "False"
    /\ \E i \in Instances :
          /\ primaryName[Self][i] # NoReplica
          /\ generateName(Self, i)
                 \in DOMAIN DictGet(view_change_done[Self], i)
          /\ Cardinality(DOMAIN DictGet(view_change_done[Self], i)) > 1

\* C8: decision point.  Where instance i has no primary, the previous
\* master primary is not the expected primary's node, and the votes held
\* for i all carry the pair (expected primary, ledger_info), a further
\* such vote of a peer that has not voted returns false as long as fewer
\* than 2f+1 matching votes are held, and true when it is the one that
\* brings them to 2f+1 with the expected primary among the voters (with 4
\* nodes: false, false, true).
C8_DecisionPoint ==
    \A msg \in Votes, sender \in Peers(Self) :
        LET i == msg.instId
            held == DictGet(view_change_done[Self], i)
            expected == _who_is_the_next_primary(viewNo[Self], i)
            voter == generateName(sender, i)
            matching == Cardinality(DOMAIN held) + 1
        IN  (/\ msg.viewNo = viewNo[Self]
             /\ msg.name = expected
             /\ primaryName[Self][i] = NoReplica
             /\ getNodeName(expected) # previous_master_primary[Self]
             /\ voter \notin DOMAIN held
             /\ \A v \in DOMAIN held : held[v] = <<expected, msg.ledgerInfo>>)
            => \A out \in _processViewChangeDoneMessage(Self, msg, sender) :
                 /\ matching < 2 * f + 1 => out.rv = "False"
                 /\ (matching = 2 * f + 1
                     /\ expected \in DOMAIN held \cup {voter})
                        => out.rv = "True"

\* C8 witness: with 4 nodes the third matching vote has just decided an
\* instance
C8_Witness ==
    /\ totalNodes = 4
    /\ last[Self].op = "process_vote"
    /\ last[Self].rv = "True"
    /\ \E i \in Instances :
          /\ Cardinality(DOMAIN DictGet(view_change_done[Self], i)) = 3
          /\ \A v \in DOMAIN DictGet(view_change_done[Self], i) :
                view_change_done[Self][i][v] =
                    <<_who_is_the_next_primary(viewNo[Self], i), ledger_info>>
          /\ primaryName[Self][i] = _who_is_the_next_primary(viewNo[Self], i)

\* a vote of the current view that the anti-flap rule lets pass, from a
\* voter the ledger does not hold, is recorded as the voter's first vote
FirstVoteRecorded(msg, sender) ==
    LET voter == generateName(sender, msg.instId)
    IN  (/\ msg.viewNo = viewNo[Self]
         /\ ~ IsPreviousMasterPrimary(previous_master_primary[Self],
                                      msg.instId, msg.name)
         /\ voter \notin DOMAIN DictGet(view_change_done[Self], msg.instId))
        => \A out \in _processViewChangeDoneMessage(Self, msg, sender) :
              /\ out.reason # "already voted"
              /\ voter \in DOMAIN DictGet(out.vcd, msg.instId)
              /\ out.vcd[msg.instId][voter] = <<msg.name, msg.ledgerInfo>>

\* C9: view reset.  The step in which view_change_started accepts a new
\* view leaves the vote mapping of every instance empty, and in the state
\* it leaves a vote of a sender that had voted for the instance before
\* the reset is recorded as a first vote, not turned down as a duplicate.
C9_ViewReset ==
    [][viewNo'[Self] # viewNo[Self] =>
        /\ DOMAIN view_change_done'[Self] = DOMAIN view_change_done[Self]
        /\ \A i \in DOMAIN view_change_done'[Self] :
              view_change_done'[Self][i] = EmptyDict
        /\ \A msg \in Votes, sender \in Peers(Self) :
              generateName(sender, msg.instId)
                  \in DOMAIN DictGet(view_change_done[Self], msg.instId)
              => FirstVoteRecorded(msg, sender)']_vars

\* C9 witness: a view was accepted by a selector whose ledger had been
\* written to for every instance, and a vote is held again in the new view
C9_Witness ==
    /\ viewNo[Self] > 0
    /\ DOMAIN view_change_done[Self] = Instances
    /\ last[Self].op = "process_vote"
    /\ RecordedPeerVotes(Self) > 0

\* C10: start_selection effects.  For every instance without a primary,
\* start_selection sends exactly one Vote(current view, instance, expected
\* primary, local ledger_info), records that vote under this node's own
\* replica name, and makes the expected primary the instance's primary,
\* waiting for no quorum; for the master it also clears the previous
\* master primary.  After it every instance has a primary.
C10_StartSelectionEffects ==
    LET st == SelectionResult(Self)
    IN  /\ \A i \in Instances :
              primaryName[Self][i] = NoReplica =>
                  LET expected == _who_is_the_next_primary(viewNo[Self], i)
                      vote == ViewChangeDone(expected, i, viewNo[Self],
                                             ledger_info)
                  IN  /\ Cardinality(SentFor(st.sent, i)) = 1
                      /\ \A k \in SentFor(st.sent, i) : st.sent[k] = vote
                      /\ generateName(Self, i) \in DOMAIN DictGet(st.vcd, i)
                      /\ st.vcd[i][generateName(Self, i)]
                             = <<expected, ledger_info>>
                      /\ st.prim[i] = expected
                      /\ i = 0 => st.pmp = None
        /\ \A i \in Instances : st.prim[i] # NoReplica

\* C10 witness: start_selection has run in a view that began with a
\* previous master primary, for every instance, with no vote of a peer
\* held
C10_Witness ==
    /\ last[Self].op = "start_selection"
    /\ Len(last[Self].sent) = Len(replicas)
    /\ view_began[Self].pmp # None
    /\ previous_master_primary[Self] = None
    /\ RecordedPeerVotes(Self) = 0
    /\ \A i \in Instances : primaryName[Self][i] # NoReplica

\* the instances for which node n holds a vote under its own replica name
SelfVoted(n) ==
    {i \in DOMAIN view_change_done[n] :
        generateName(n, i) \in DOMAIN view_change_done[n][i]}

\* C11: process_vote never fails.  Whatever the view number, instance id
\* (also one for which this node has no replica), sender and claimed
\* primary of a vote, the call completes and returns true or false.
C11_NeverFails ==
    last[Self].op = "process_vote" => last[Self].rv \in {"True", "False"}

\* the rank of a node: its place in the rank table, from 0
RankOf(nodeName) ==
    CHOOSE r \in 0..(Len(RankTable) - 1) : RankTable[r + 1] = nodeName

\* the round-robin primary is the replica of the node of rank
\* (view + instance) mod totalNodes, for the instance asked for
ScheduledRank(view, instance_id) ==
    LET expected == _who_is_the_next_primary(view, instance_id)
    IN  /\ expected = generateName(getNodeName(expected), instance_id)
        /\ getNodeName(expected) \in Roster(totalNodes)
        /\ RankOf(getNodeName(expected)) = (view + instance_id) % totalNodes

\* from one instance to the next the rank moves on by one, mod totalNodes
NextInstanceNextRank(view, instance_id) ==
    RankOf(getNodeName(_who_is_the_next_primary(view, instance_id + 1)))
        = (RankOf(getNodeName(_who_is_the_next_primary(view, instance_id)))
           + 1) % totalNodes

\* C12: round-robin schedule.  expected_primary(view, instance) is the
\* replica for the instance of the node whose rank is (view + instance) mod
\* total_nodes; for a fixed view the instances 0, 1, 2, ... map to the
\* ranks view, view+1, view+2, ... mod total_nodes; and no call on the
\* selector (a vote, a selection, a view change) alters what it yields
\* for a given view and instance.
C12_RoundRobin ==
    /\ [](\A v \in Views, i \in VoteInstances :
            /\ ScheduledRank(v, i)
            /\ NextInstanceNextRank(v, i)
            /\ RankOf(getNodeName(_who_is_the_next_primary(v, 0)))
                   = v % totalNodes)
    /\ [][\A v \in Views, i \in VoteInstances :
            _who_is_the_next_primary(v, i)'
                = _who_is_the_next_primary(v, i)]_vars

\* C12 witness: start_selection has used the schedule where it wraps
\* around the roster: in view 1 of a roster of two, the backup instance
\* has the node of rank 0 as its primary
C12_Witness ==
    /\ totalNodes = 2
    /\ viewNo[Self] = 1
    /\ SelfVoted(Self) = Instances
    /\ primaryName[Self][0] = generateName("B", 0)
    /\ primaryName[Self][1] = generateName("A", 1)

\* the list holds exactly one vote for each instance with a self-vote,
\* built from that entry and the current view, and none for any other
ReplaysSelfVotes ==
    LET msgs == get_msgs_for_lagged_nodes(Self)
        vcd == view_change_done[Self]
    IN  /\ \A i \in SelfVoted(Self) :
              /\ Cardinality(SentFor(msgs, i)) = 1
              /\ \A k \in SentFor(msgs, i) :
                    msgs[k] = ViewChangeDone(
                                  vcd[i][generateName(Self, i)][1], i,
                                  viewNo[Self],
                                  vcd[i][generateName(Self, i)][2])
        /\ \A k \in DOMAIN msgs : msgs[k].instId \in SelfVoted(Self)
        /\ SelfVoted(Self) = {} => msgs = <<>>

AdoptedBySelection(instance_id) ==
    /\ primaryName[Self][instance_id]
           = _who_is_the_next_primary(viewNo[Self], instance_id)
    /\ instance_id \in SelfVoted(Self)

\* C14: quorum verification after optimistic adoption.  After
\* start_selection has adopted the expected primary for an instance in the
\* current view, process_vote returns true for that instance once a strong
\* quorum of matching votes for the expected primary, the expected
\* primary's own among them, has been recorded.
C14_VerifiedAfterAdoption ==
    \A msg \in Votes, sender \in Peers(Self) :
        \A out \in _processViewChangeDoneMessage(Self, msg, sender) :
            LET i == msg.instId
                expected == _who_is_the_next_primary(viewNo[Self], i)
            IN  (/\ AdoptedBySelection(i)
                 /\ out.vcd # view_change_done[Self]
                 /\ QuorumOfIdenticalVotesFor(out.vcd, i, expected)
                 /\ expected \in DOMAIN DictGet(out.vcd, i))
                    => out.rv = "True"

\* the pairs recorded for an instance by a strong quorum of voters
QuorumPairs(vcd, instance_id) ==
    {pair \in RecordedPairs(vcd, instance_id) :
        PairCount(vcd, instance_id, pair) >= get_strong_quorum(f)}

\* what a call returns does not depend on the pair mostCommonElement picks
SameReturnWhateverPicked(msg, sender) ==
    \A o1 \in _processViewChangeDoneMessage(Self, msg, sender) :
        \A o2 \in _processViewChangeDoneMessage(Self, msg, sender) :
            o1.rv = o2.rv

\* a vote recorded for an undecided instance that leaves a strong quorum
\* of identical votes for the expected primary and the expected primary's
\* own vote is answered with true
QuorumForExpectedDecides(msg, sender) ==
    LET i == msg.instId
        expected == _who_is_the_next_primary(viewNo[Self], i)
    IN  \A out \in _processViewChangeDoneMessage(Self, msg, sender) :
            (/\ primaryName[Self][i] = NoReplica
             /\ out.vcd # view_change_done[Self]
             /\ QuorumOfIdenticalVotesFor(out.vcd, i, expected)
             /\ expected \in DOMAIN DictGet(out.vcd, i))
                => out.rv = "True"

\* the three parts of tie-break independence, in the state at hand
TieBreakIndependent ==
    /\ \A i \in DOMAIN view_change_done[Self] :
          Cardinality(QuorumPairs(view_change_done[Self], i)) <= 1
    /\ \A msg \in Votes, sender \in Peers(Self) :
          /\ SameReturnWhateverPicked(msg, sender)
          /\ QuorumForExpectedDecides(msg, sender)

\* C15: quorum uniqueness and tie-break independence.  In every roster,
\* for every instance and view, at most one (claimed primary, ledger_info)
\* pair has 2f+1 or more recorded votes, the result of process_vote does
\* not depend on which of several equally frequent pairs is picked, and a
\* vote that completes 2f+1 identical votes for the expected primary, with
\* the expected primary's own vote recorded, on an undecided instance
\* returns true.
C15_TieBreakIndependent == TieBreakIndependent

\* the same in rosters in which two strong quorums cannot be disjoint
TieBreakIndependentWhereQuorumsMeet ==
    2 * get_strong_quorum(f) > totalNodes => TieBreakIndependent

\* the voters of an instance, the expected primary's replica left out,
\* whose recorded vote is the pair
OtherVotersFor(vcd, instance_id, expected, pair) ==
    {v \in DOMAIN DictGet(vcd, instance_id) \ {expected} :
        vcd[instance_id][v] = pair}

\* C16 as stated: endorsement by the prospective primary.  Whenever
\* process_vote returns true for instance i, the vote recorded from the
\* expected primary's own replica for i claims the decided primary.
C16_EndorsedByExpected ==
    \A msg \in VotesFive, sender \in Peers(Self) :
        \A out \in _processViewChangeDoneMessage(Self, msg, sender) :
            LET i == msg.instId
                expected == _who_is_the_next_primary(viewNo[Self], i)
            IN  out.rv = "True" =>
                    /\ expected \in DOMAIN DictGet(out.vcd, i)
                    /\ out.vcd[i][expected][1] = out.prim[i]

\* C16 as amended: whenever process_vote returns true for instance i, a
\* vote from the expected primary's own replica is recorded for i; it
\* claims the decided primary or, when it claims another, 2f+1 other
\* voters hold one identical vote for the decided primary.
C16_ExpectedPrimaryVoted ==
    \A msg \in VotesFive, sender \in Peers(Self) :
        \A out \in _processViewChangeDoneMessage(Self, msg, sender) :
            LET i == msg.instId
                expected == _who_is_the_next_primary(viewNo[Self], i)
            IN  out.rv = "True" =>
                    /\ expected \in DOMAIN DictGet(out.vcd, i)
                    /\ out.prim[i] = expected
                    /\ \/ out.vcd[i][expected][1] = out.prim[i]
                       \/ \E pair \in RecordedPairs(out.vcd, i) :
                             /\ pair[1] = out.prim[i]
                             /\ Cardinality(OtherVotersFor(out.vcd, i,
                                    expected, pair)) >= get_strong_quorum(f)

\* C16 witness: an instance was decided by a vote (it has its primary and
\* no vote of this node) while the expected primary's replica had voted
\* for another primary
C16_Witness ==
    \E i \in Instances :
        LET expected == _who_is_the_next_primary(viewNo[Self], i)
        IN  /\ primaryName[Self][i] = expected
            /\ i \notin SelfVoted(Self)
            /\ expected \in DOMAIN DictGet(view_change_done[Self], i)
            /\ view_change_done[Self][i][expected][1] # expected

\* the call ended at lines 152-157: the pair picked has a strong quorum
\* of votes and names a primary other than the expected one
MajorityMismatch(out, instance_id) ==
    /\ out.reason = "majority declared another"
    /\ \E pair \in QuorumPairs(out.vcd, instance_id) :
          pair[1] # _who_is_the_next_primary(viewNo[Self], instance_id)

\* the primary of every instance is the expected one, if it has any
OnlyExpectedAdopted ==
    \A i \in Instances :
        primaryName[Self][i] # NoReplica =>
            primaryName[Self][i] = _who_is_the_next_primary(viewNo[Self], i)

\* C17 as stated: majority mismatch leaves state untouched.  When the most
\* frequent pair of an instance reaches the strong quorum and names a
\* primary other than the expected one, process_vote returns false and
\* the vote ledger, the previous master primary and every instance's
\* primary are as before the call; no primary other than the expected one
\* is ever adopted.
C17_MismatchAltersNothing ==
    /\ OnlyExpectedAdopted
    /\ \A msg \in Votes, sender \in Peers(Self) :
          \A out \in _processViewChangeDoneMessage(Self, msg, sender) :
              MajorityMismatch(out, msg.instId) =>
                  out.rv = "False" /\ LeftAsBefore(Self, out)

\* C17 as amended: in that case process_vote returns false and the
\* previous master primary and every instance's primary are as before the
\* call, while the vote ledger has gained the vote just handled, and only
\* that; no primary other than the expected one is ever adopted.
C17_MismatchKeepsDecision ==
    /\ OnlyExpectedAdopted
    /\ \A msg \in Votes, sender \in Peers(Self) :
          \A out \in _processViewChangeDoneMessage(Self, msg, sender) :
              LET i == msg.instId
                  voter == generateName(sender, i)
              IN  out.reason = "majority declared another" =>
                      /\ MajorityMismatch(out, i)
                      /\ out.rv = "False"
                      /\ out.pmp = previous_master_primary[Self]
                      /\ out.prim = primaryName[Self]
                      /\ voter \notin DOMAIN DictGet(view_change_done[Self], i)
                      /\ out.vcd = DictSet(view_change_done[Self], i,
                             DictSet(DictGet(view_change_done[Self], i),
                                     voter, <<msg.name, msg.ledgerInfo>>))

\* C17 witness: an undecided instance holds the expected primary's vote
\* and a strong quorum of identical votes for a primary other than the
\* expected one: the vote that completed them was answered with the
\* mismatch
C17_Witness ==
    \E i \in Instances :
        LET expected == _who_is_the_next_primary(viewNo[Self], i)
        IN  /\ primaryName[Self][i] = NoReplica
            /\ expected \in DOMAIN DictGet(view_change_done[Self], i)
            /\ \E pair \in QuorumPairs(view_change_done[Self], i) :
                  pair[1] # expected

\* the vote ledger holds no entry
NoEntries(vcd) == \A i \in DOMAIN vcd : DOMAIN vcd[i] = {}

\* whatever is written to the ledger or read from it carries the current
\* view: a vote is recorded only when it is of the current view, the
\* node's own votes are sent for the current view, and the catch-up
\* messages are tagged with it
RecordedInCurrentView ==
    /\ \A msg \in Votes, sender \in Peers(Self) :
          \A out \in _processViewChangeDoneMessage(Self, msg, sender) :
              out.vcd # view_change_done[Self] => msg.viewNo = viewNo[Self]
    /\ \A k \in DOMAIN SelectionResult(Self).sent :
          SelectionResult(Self).sent[k].viewNo = viewNo[Self]
    /\ \A k \in DOMAIN get_msgs_for_lagged_nodes(Self) :
          get_msgs_for_lagged_nodes(Self)[k].viewNo = viewNo[Self]

\* C18: no vote crosses a view boundary.  Every entry of the vote ledger
\* was recorded while the node's view number had its current value: a vote
\* is recorded only in the view it is of, and the step that changes the
\* view number leaves no entry behind, so that under any interleaving of
\* view_change_started, start_selection, process_vote and
\* catch_up_messages a vote of an earlier view is neither counted toward a
\* quorum nor returned by catch_up_messages in a later view.
C18_NoVoteCrossesView ==
    /\ []RecordedInCurrentView
    /\ [][viewNo'[Self] # viewNo[Self] =>
            /\ NoEntries(view_change_done'[Self])
            /\ get_msgs_for_lagged_nodes(Self)' = <<>>
            /\ \A i \in Instances :
                  ~ _hasViewChangeQuorum(view_change_done'[Self], i)]_vars

\* C18 witness: in a view entered while votes of the node and of peers
\* were held, votes of peers are held again and a vote of another view
\* has just been turned down
C18_Witness ==
    /\ viewNo[Self] > 0
    /\ view_began[Self].pmp # None
    /\ RecordedPeerVotes(Self) > 0
    /\ last[Self].op = "process_vote"
    /\ last[Self].reason = "other view"

\* C19: self-votes always name the scheduled primary.  Each entry of the
\* vote ledger stored under this node's own replica name for instance i
\* claims the expected primary of (current view, i), so every Vote that
\* catch_up_messages returns names the round-robin primary of the current
\* view for its instance.
C19_SelfVotesNameScheduled ==
    /\ \A i \in SelfVoted(Self) :
          view_change_done[Self][i][generateName(Self, i)][1]
              = _who_is_the_next_primary(viewNo[Self], i)
    /\ \A k \in DOMAIN get_msgs_for_lagged_nodes(Self) :
          LET m == get_msgs_for_lagged_nodes(Self)[k]
          IN  m.name = _who_is_the_next_primary(viewNo[Self], m.instId)

\* C19 witness: in view 1, after a selection in view 0 too, the node holds
\* its own vote for every instance and has returned them on request
C19_Witness ==
    /\ viewNo[Self] = 1
    /\ view_began[Self].pmp = Self
    /\ SelfVoted(Self) = Instances
    /\ last[Self].op = "catch_up_messages"
    /\ \E k \in DOMAIN last[Self].sent :
          last[Self].sent[k].name = generateName("C", 1)

\* what a second start_selection, called right after a first, leaves
SelectedTwice ==
    LET first == SelectionResult(Self)
    IN  [first |-> first,
         second |-> SelectionLoop([first EXCEPT !.sent = <<>>], Self, 1)]

\* C20: start_selection is idempotent within a view.  A second call with
\* no view change in between sends no message and leaves the vote ledger,
\* the previous master primary and every instance's primary exactly as the
\* first call left them.
C20_SelectionIdempotent ==
    /\ SelectedTwice.second = [SelectedTwice.first EXCEPT !.sent = <<>>]
    /\ last[Self].op = "start_selection" =>
          SelectionResult(Self) =
              [vcd |-> view_change_done[Self], prim |-> primaryName[Self],
               pmp |-> previous_master_primary[Self], sent |-> <<>>]

\* C20 witness: start_selection was called again in a view in which an
\* earlier call had cast the node's vote for every instance, and sent
\* nothing
C20_Witness ==
    /\ last[Self].op = "start_selection"
    /\ last[Self].sent = <<>>
    /\ SelfVoted(Self) = Instances
    /\ viewNo[Self] > 0

====
